---------------------------- MODULE Spec2Model ----------------------------
(***************************************************************************)
(* A model of the kaleidoscope front end of src/main.cpp: the lexer        *)
(* (Parser::GetToken), the recursive-descent / precedence-climbing parser  *)
(* (the Parser::Parse... methods) as a call-stack machine, and the lowering *)
(* pass (the CodeGen methods of the AST classes).                          *)
(*                                                                         *)
(* Characters and tokens are integers, as in the source: a character is    *)
(* its ASCII code, end-of-input is EOF = -1, and a token is either one of  *)
(* the negative Token enumerators or the ASCII code of a single character. *)
(* Strings are sequences of character codes.                               *)
(***************************************************************************)
EXTENDS Integers, Sequences, FiniteSets, TLC

VARIABLES
    source,            \* the characters the CharStream supplies
    index,             \* StringCharStream::index (characters handed out)
    last_char,         \* Parser::last_char
    g_identifier_str,  \* Parser::g_identifier_str
    g_number_val,      \* Parser::g_number_val
    g_current_token,   \* Parser::g_current_token
    calls,             \* lexer driver: number of GetNextToken calls made
    stack,             \* parser: the call stack of the Parse... methods
    ret,               \* parser: the value the last returning call returned
    pc,                \* parser driver: "dispatch", "parsing", "done"
    result,            \* parser driver: the top-level construct parsed
    program,           \* lowering driver: the top-level constructs to lower
    ip,                \* lowering driver: constructs already taken
    gpc,               \* lowering driver: position inside the current lowering
    g_module,          \* the global Module g_module (its function list)
    context_module,    \* ASTContext::module (its function list)
    namedValues,       \* ASTContext::namedValues
    curFunc,           \* FunctionAST::CodeGen's local func
    outcome            \* how the last lowering ended

lexvars == <<source, index, last_char, g_identifier_str, g_number_val,
             g_current_token>>
parsevars == <<stack, ret, pc, result>>
genvars == <<program, ip, gpc, g_module, context_module, namedValues,
             curFunc, outcome>>
vars == <<lexvars, calls, parsevars, genvars>>

---------------------------------------------------------------------------
(* Bounds of the model.                                                    *)

MaxLexLen == 4      \* lexer runs: longest character input
MaxCalls == 3       \* lexer runs: GetNextToken calls per input
MaxLexemes == 4     \* parser runs: lexemes after the optional header
MaxOps == 3         \* parser runs: operators in a literal/operator chain
MaxArgs == 4        \* parser runs: call arguments recorded individually
MaxItems == 2       \* lowering runs: top-level constructs per program

---------------------------------------------------------------------------
(* Characters (ASCII codes) and the Token enumeration.                     *)

EOF == -1
TOKEN_EOF == -1
TOKEN_DEF == -2
TOKEN_EXTERN == -3
TOKEN_IDENTIFIER == -4
TOKEN_NUMBER == -5

chNL == 10
chCR == 13
chSpace == 32
chHash == 35
chLParen == 40
chRParen == 41
chStar == 42
chPlus == 43
chComma == 44
chMinus == 45
chDot == 46
chLess == 60

kwDef == <<100, 101, 102>>                    \* "def"
kwExtern == <<101, 120, 116, 101, 114, 110>>  \* "extern"

isspace(c) == c \in {32, 9, 10, 11, 12, 13}
isdigit(c) == c \in 48..57
isalpha(c) == c \in (65..90) \cup (97..122)
isalnum(c) == isalpha(c) \/ isdigit(c)

---------------------------------------------------------------------------
(* Numbers.  A double read by strtod from a short decimal text is kept     *)
(* exactly, as mant * 10^(-exp) with no trailing zero in the fraction, so  *)
(* that two texts denote the same value iff their records are equal.       *)

RECURSIVE Normalize(_)
Normalize(v) ==
    IF v.mant = 0 THEN [mant |-> 0, exp |-> 0]
    ELSE IF v.exp > 0 /\ v.mant % 10 = 0
         THEN Normalize([mant |-> v.mant \div 10, exp |-> v.exp - 1])
         ELSE v

Zero == [mant |-> 0, exp |-> 0]
Num(n) == [mant |-> n, exp |-> 0]

RECURSIVE DigitsValue(_, _)
DigitsValue(s, acc) ==
    IF s = <<>> THEN acc
    ELSE DigitsValue(Tail(s), 10 * acc + (Head(s) - 48))

RECURSIVE DigitRun(_)
DigitRun(s) ==
    IF s # <<>> /\ isdigit(Head(s)) THEN <<Head(s)>> \o DigitRun(Tail(s))
    ELSE <<>>

Drop(s, n) == SubSeq(s, n + 1, Len(s))
Range(s) == {s[i] : i \in 1..Len(s)}

(* strtod(text, nullptr) on a text of digits and '.': the longest leading  *)
(* part of the form digits [. digits] or . digits is converted; when there *)
(* is none (no digit before or right after the first '.') the result is 0. *)
StrtodAllOrNothing(s) ==
    LET intpart == DigitRun(s)
        rest == Drop(s, Len(intpart))
        dot == rest # <<>> /\ Head(rest) = chDot
        fracpart == IF dot THEN DigitRun(Tail(rest)) ELSE <<>>
        used == Len(intpart) + Len(fracpart) + (IF dot THEN 1 ELSE 0)
    IN  IF Len(intpart) + Len(fracpart) = 0 \/ used # Len(s) THEN Zero
        ELSE Normalize([mant |-> DigitsValue(intpart \o fracpart, 0),
                        exp |-> Len(fracpart)])

strtod(s) ==
    LET intpart == DigitRun(s)
        rest == Drop(s, Len(intpart))
        dot == rest # <<>> /\ Head(rest) = chDot
        fracpart == IF dot THEN DigitRun(Tail(rest)) ELSE <<>>
    IN  IF Len(intpart) + Len(fracpart) = 0 THEN Zero
        ELSE Normalize([mant |-> DigitsValue(intpart \o fracpart, 0),
                        exp |-> Len(fracpart)])

---------------------------------------------------------------------------
(* The lexer.  A lexer state is the record of the Parser's lexer fields.   *)

LexState ==
    [last_char |-> last_char, index |-> index, ident |-> g_identifier_str,
     num |-> g_number_val, tok |-> g_current_token]

(* A local of the source is bound as `x \in {e}`: the one element of the   *)
(* set is the value of e, computed once.  Value(S) is that element.        *)
Value(S) == CHOOSE x \in S : TRUE

(* StringCharStream::next / FileCharStream::next followed by the           *)
(* assignment of Parser::nextChar.                                         *)
nextChar(st) ==
    IF st.index < Len(source)
    THEN [st EXCEPT !.last_char = source[st.index + 1], !.index = st.index + 1]
    ELSE [st EXCEPT !.last_char = EOF]

(* GetToken, lines 323-326.                                                *)
RECURSIVE SkipSpace(_)
SkipSpace(st) ==
    IF isspace(st.last_char)
    THEN Value({SkipSpace(n) : n \in {nextChar(st)}})
    ELSE st

(* GetToken, lines 331-334.                                                *)
RECURSIVE ScanIdentifier(_)
ScanIdentifier(st) ==
    Value({ IF isalnum(n.last_char)
            THEN ScanIdentifier([n EXCEPT !.ident = Append(@, n.last_char)])
            ELSE n
            : n \in {nextChar(st)} })

(* GetToken, lines 352-356.                                                *)
RECURSIVE ScanNumber(_, _)
ScanNumber(st, num_str) ==
    Value({ IF isdigit(n.last_char) \/ n.last_char = chDot
            THEN ScanNumber(n, Append(num_str, st.last_char))
            ELSE [st |-> n, num_str |-> Append(num_str, st.last_char)]
            : n \in {nextChar(st)} })

(* GetToken, lines 363-366.                                                *)
RECURSIVE SkipComment(_)
SkipComment(st) ==
    Value({ IF n.last_char # EOF /\ n.last_char # chNL /\ n.last_char # chCR
            THEN SkipComment(n)
            ELSE n
            : n \in {nextChar(st)} })

Keyword(ident) ==
    IF ident = kwDef THEN TOKEN_DEF
    ELSE IF ident = kwExtern THEN TOKEN_EXTERN
    ELSE TOKEN_IDENTIFIER

(* After a comment that did not end at end-of-input GetToken calls itself. *)
CommentRecursesNever(c) == FALSE
CommentRecurses(c) == c.last_char # EOF

(* GetToken, lines 328-380, from the first character that is no blank.     *)
RECURSIVE GetToken(_)
GetTokenFrom(st) ==
    IF isalpha(st.last_char)
    THEN Value({ [r EXCEPT !.tok = Keyword(r.ident)]
                 : r \in {ScanIdentifier([st EXCEPT !.ident = <<st.last_char>>])} })
    ELSE IF isdigit(st.last_char) \/ st.last_char = chDot
    THEN Value({ [r.st EXCEPT !.num = strtod(r.num_str), !.tok = TOKEN_NUMBER]
                 : r \in {ScanNumber(st, <<>>)} })
    ELSE Value({ IF st.last_char = chHash /\ CommentRecurses(c)
                 THEN GetToken(c)
                 ELSE IF c.last_char = EOF
                 THEN [c EXCEPT !.tok = TOKEN_EOF]
                 ELSE [nextChar(c) EXCEPT !.tok = c.last_char]
                 : c \in {IF st.last_char = chHash THEN SkipComment(st) ELSE st} })

GetToken(st0) == Value({GetTokenFrom(st) : st \in {SkipSpace(st0)}})

(* The lexer fields after a call that left the lexer in state r.           *)
SetLex(r) ==
    /\ last_char' = r.last_char
    /\ index' = r.index
    /\ g_identifier_str' = r.ident
    /\ g_number_val' = r.num
    /\ g_current_token' = r.tok
    /\ UNCHANGED source

(* Parser::GetNextToken, lines 383-386.                                    *)
GetNextToken == \E r \in {GetToken(LexState)} : SetLex(r)

(* The fields of a freshly constructed Parser over the input s.            *)
(* g_number_val and g_current_token are uninitialized in the source; they  *)
(* are written by the first GetToken before anything reads them.           *)
FreshLexer(s) ==
    /\ source = s
    /\ index = 0
    /\ last_char = chSpace
    /\ g_identifier_str = <<>>
    /\ g_number_val = Zero
    /\ g_current_token = 0

---------------------------------------------------------------------------
(* Bounded sets of inputs.                                                 *)

RECURSIVE SeqsUpTo(_, _)
SeqsUpTo(S, n) ==
    IF n = 0 THEN {<<>>}
    ELSE LET shorter == SeqsUpTo(S, n - 1)
         IN  shorter \cup {Append(q, x) : q \in shorter, x \in S}

RECURSIVE Flatten(_)
Flatten(ss) == IF ss = <<>> THEN <<>> ELSE Head(ss) \o Flatten(Tail(ss))

(* Characters of the lexer runs: blank, newline, return, '#', '+', '.',    *)
(* '0', '1', 'a'.                                                          *)
LexAlphabet == {chSpace, chNL, chCR, chHash, chPlus, chDot, 48, 49, 97}
LexInputs == SeqsUpTo(LexAlphabet, MaxLexLen)

---------------------------------------------------------------------------
(* The lexer on its own: a client (testGetToken, or the parser) that calls *)
(* GetNextToken again and again on one input.                              *)

NoParser ==
    /\ stack = <<>>
    /\ ret = [kind |-> "null"]
    /\ pc = "idle"
    /\ result = [kind |-> "none"]

NullValue == [kind |-> "null"]
EmptyMap == [n \in {} |-> NullValue]

NoLowering ==
    /\ program = <<>>
    /\ ip = 0
    /\ gpc = "idle"
    /\ g_module = <<>>
    /\ context_module = <<>>
    /\ namedValues = EmptyMap
    /\ curFunc = NullValue
    /\ outcome = "none"

LexInit ==
    /\ \E s \in LexInputs : FreshLexer(s)
    /\ calls = 0
    /\ NoParser
    /\ NoLowering

(* testGetToken, line 610: one more call of GetNextToken.  The calls go on  *)
(* after the end-of-input token, as the parser's do.                       *)
LexerClient ==
    /\ calls < MaxCalls
    /\ calls' = calls + 1
    /\ GetNextToken
    /\ UNCHANGED <<parsevars, genvars>>

LexNext == LexerClient

LexSpec == LexInit /\ [][LexNext]_vars

---------------------------------------------------------------------------
(* The syntax tree.  A unique_ptr that holds no node is NullAST.           *)

NullAST == [kind |-> "null"]
NumberExprAST(val) == [kind |-> "Number", val |-> val]
VariableExprAST(name) == [kind |-> "Variable", name |-> name]
BinaryExprAST(op, lhs, rhs) ==
    [kind |-> "Binary", op |-> op, lhs |-> lhs, rhs |-> rhs]
CallExprAST(callee, args) == [kind |-> "Call", callee |-> callee, args |-> args]
PrototypeAST(name, args) == [kind |-> "Prototype", name |-> name, args |-> args]
FunctionAST(proto, body) == [kind |-> "Function", proto |-> proto, body |-> body]

---------------------------------------------------------------------------
(* The precedence table and Parser::GetTokenPrecedence.  The table's key   *)
(* type is char: the int token is converted to a char for the lookup.      *)

ToChar(t) == t % 256

g_binop_precedence ==
    [c \in {chLess, chPlus, chMinus, chStar} |->
        CASE c = chLess -> 10
          [] c = chPlus -> 20
          [] c = chMinus -> 20
          [] c = chStar -> 40]

GetTokenPrecedenceDefaultZero(tok) ==
    IF ToChar(tok) \in DOMAIN g_binop_precedence
    THEN g_binop_precedence[ToChar(tok)]
    ELSE 0

GetTokenPrecedence(tok) ==
    IF ToChar(tok) \in DOMAIN g_binop_precedence
    THEN g_binop_precedence[ToChar(tok)]
    ELSE -1

(* ParseBinOpRhs, line 493: the operator after rhs is absorbed into rhs    *)
(* first when it binds tighter than the current one.                       *)
BindsTighterNever(current_precedence, next_precedence) == FALSE
BindsTighter(current_precedence, next_precedence) ==
    current_precedence < next_precedence

---------------------------------------------------------------------------
(* The parser as a call-stack machine.  A frame is one activation of a     *)
(* Parse... method: fn names the method, pc the place it resumes at, the   *)
(* other fields are its locals.  The frame on top of the stack runs; a     *)
(* call pushes the callee's frame and a return pops it and leaves the      *)
(* returned value in ret.  `return F(...)` is modelled as replacing the    *)
(* caller's frame by F's: the caller does nothing with F's value but       *)
(* return it.                                                              *)

Frame(fn, at) ==
    [fn |-> fn, pc |-> at, min_precedence |-> 0, current_precedence |-> 0,
     binop |-> 0, lhs |-> NullAST, id |-> <<>>, args |-> <<>>,
     proto |-> NullAST]

Top == stack[Len(stack)]
Running(fn, at) ==
    /\ pc = "parsing"
    /\ stack # <<>>
    /\ Top.fn = fn
    /\ Top.pc = at
Pop == SubSeq(stack, 1, Len(stack) - 1)
SetTop(f) == [stack EXCEPT ![Len(stack)] = f]
Call(caller, callee) == Append(SetTop(caller), callee)
NoLex == UNCHANGED lexvars
Idle == UNCHANGED <<calls, genvars>>

(* vector::push_back on a Call's argument list.  The model records the     *)
(* first MaxArgs arguments and counts no further: the arguments past that  *)
(* number are the null results pushed by the argument loop at end-of-input *)
(* (ArgsDroppedOnlyAtEof), and nothing in the parser reads the list.       *)
PushBack(args, x) == IF Len(args) < MaxArgs THEN Append(args, x) ELSE args

(* Parser::ParsePrototype, lines 513-524.                                  *)
RECURSIVE PrototypeArgs(_, _)
PrototypeArgs(st, arg_names) ==
    Value({ IF n.tok = TOKEN_IDENTIFIER
            THEN PrototypeArgs(n, Append(arg_names, n.ident))
            ELSE [st |-> n, arg_names |-> arg_names]
            : n \in {GetToken(st)} })

ParsePrototype(st) ==
    Value({ [st |-> GetToken(a.st),
             proto |-> PrototypeAST(function_name, a.arg_names)]
            : function_name \in {st.ident},
              a \in {PrototypeArgs(GetToken(st), <<>>)} })

(* testExpr, line 639: the first token is read before the dispatch loop.   *)
testExpr ==
    /\ pc = "start"
    /\ GetNextToken
    /\ pc' = "dispatch"
    /\ UNCHANGED <<stack, ret, result>>
    /\ Idle

(* testExpr, lines 644-645: nothing to parse.                              *)
testExprEof ==
    /\ pc = "dispatch"
    /\ g_current_token = TOKEN_EOF
    /\ pc' = "done"
    /\ UNCHANGED <<stack, ret, result>>
    /\ NoLex
    /\ Idle

(* Parser::ParseDefinition, lines 529-531, up to the call of               *)
(* ParseExpression.                                                        *)
ParseDefinition ==
    /\ pc = "dispatch"
    /\ g_current_token = TOKEN_DEF
    /\ \E p \in {ParsePrototype(GetToken(LexState))} :
           /\ SetLex(p.st)
           /\ stack' = <<[Frame("ParseDefinition", "make") EXCEPT
                              !.proto = p.proto],
                         Frame("ParseExpression", "start")>>
    /\ pc' = "parsing"
    /\ UNCHANGED <<ret, result>>
    /\ Idle

(* Parser::ParseDefinition, line 532.                                      *)
ParseDefinitionReturn ==
    /\ Running("ParseDefinition", "make")
    /\ result' = FunctionAST(Top.proto, ret)
    /\ stack' = Pop
    /\ pc' = "done"
    /\ UNCHANGED ret
    /\ NoLex
    /\ Idle

(* Parser::ParseExtern, lines 538-539.                                     *)
ParseExtern ==
    /\ pc = "dispatch"
    /\ g_current_token = TOKEN_EXTERN
    /\ \E p \in {ParsePrototype(GetToken(LexState))} :
           /\ SetLex(p.st)
           /\ result' = p.proto
    /\ pc' = "done"
    /\ UNCHANGED <<stack, ret>>
    /\ Idle

(* Parser::ParseTopLevelExpr, line 545: the call of ParseExpression.       *)
ParseTopLevelExpr ==
    /\ pc = "dispatch"
    /\ g_current_token \notin {TOKEN_EOF, TOKEN_DEF, TOKEN_EXTERN}
    /\ stack' = <<Frame("ParseTopLevelExpr", "make"),
                  Frame("ParseExpression", "start")>>
    /\ pc' = "parsing"
    /\ UNCHANGED <<ret, result>>
    /\ NoLex
    /\ Idle

(* Parser::ParseTopLevelExpr, lines 546-547.                               *)
ParseTopLevelExprReturn ==
    /\ Running("ParseTopLevelExpr", "make")
    /\ result' = FunctionAST(PrototypeAST(<<>>, <<>>), ret)
    /\ stack' = Pop
    /\ pc' = "done"
    /\ UNCHANGED ret
    /\ NoLex
    /\ Idle

(* Parser::ParseExpression, line 507: the call of ParsePrimary.            *)
ParseExpression ==
    /\ Running("ParseExpression", "start")
    /\ stack' = Call([Top EXCEPT !.pc = "binop"], Frame("ParsePrimary", "start"))
    /\ UNCHANGED <<ret, pc, result>>
    /\ NoLex
    /\ Idle

(* Parser::ParseExpression, line 508: return ParseBinOpRhs(0, lhs).        *)
ParseExpressionBinOp ==
    /\ Running("ParseExpression", "binop")
    /\ stack' = SetTop([Frame("ParseBinOpRhs", "loop") EXCEPT
                            !.min_precedence = 0, !.lhs = ret])
    /\ UNCHANGED <<ret, pc, result>>
    /\ NoLex
    /\ Idle

(* Parser::ParsePrimary, lines 461-462: return ParseIdentifierExpr().      *)
ParsePrimaryIdentifier ==
    /\ Running("ParsePrimary", "start")
    /\ g_current_token = TOKEN_IDENTIFIER
    /\ stack' = SetTop(Frame("ParseIdentifierExpr", "start"))
    /\ UNCHANGED <<ret, pc, result>>
    /\ NoLex
    /\ Idle

(* Parser::ParsePrimary, lines 463-464, with Parser::ParseNumberExpr,      *)
(* lines 407-409.                                                          *)
ParseNumberExpr ==
    /\ Running("ParsePrimary", "start")
    /\ g_current_token = TOKEN_NUMBER
    /\ ret' = NumberExprAST(g_number_val)
    /\ GetNextToken
    /\ stack' = Pop
    /\ UNCHANGED <<pc, result>>
    /\ Idle

(* Parser::ParsePrimary, lines 465-466: return ParseParenExpr().           *)
ParsePrimaryParen ==
    /\ Running("ParsePrimary", "start")
    /\ g_current_token = chLParen
    /\ stack' = SetTop(Frame("ParseParenExpr", "start"))
    /\ UNCHANGED <<ret, pc, result>>
    /\ NoLex
    /\ Idle

(* Parser::ParsePrimary, lines 467-468: return nullptr.                    *)
ParsePrimaryDefault ==
    /\ Running("ParsePrimary", "start")
    /\ g_current_token \notin {TOKEN_IDENTIFIER, TOKEN_NUMBER, chLParen}
    /\ ret' = NullAST
    /\ stack' = Pop
    /\ UNCHANGED <<pc, result>>
    /\ NoLex
    /\ Idle

(* Parser::ParseParenExpr, lines 415-416.                                  *)
ParseParenExpr ==
    /\ Running("ParseParenExpr", "start")
    /\ GetNextToken
    /\ stack' = Call([Top EXCEPT !.pc = "close"],
                     Frame("ParseExpression", "start"))
    /\ UNCHANGED <<ret, pc, result>>
    /\ Idle

(* Parser::ParseParenExpr, lines 417-418.                                  *)
ParseParenExprClose ==
    /\ Running("ParseParenExpr", "close")
    /\ GetNextToken
    /\ stack' = Pop
    /\ UNCHANGED <<ret, pc, result>>
    /\ Idle

(* Parser::ParseIdentifierExpr, lines 426-435.                             *)
ParseIdentifierExpr ==
    /\ Running("ParseIdentifierExpr", "start")
    /\ \E id \in {g_identifier_str}, st1 \in {GetToken(LexState)} :
           IF st1.tok # chLParen
           THEN /\ SetLex(st1)
                /\ ret' = VariableExprAST(id)
                /\ stack' = Pop
           ELSE /\ \E st2 \in {GetToken(st1)} : SetLex(st2)
                /\ stack' = SetTop([Top EXCEPT !.id = id, !.args = <<>>,
                                               !.pc = "loop"])
                /\ UNCHANGED ret
    /\ UNCHANGED <<pc, result>>
    /\ Idle

(* Parser::ParseIdentifierExpr, lines 436-438: the loop test and the call  *)
(* of ParseExpression.                                                     *)
ParseIdentifierExprLoop ==
    /\ Running("ParseIdentifierExpr", "loop")
    /\ stack' = IF g_current_token # chRParen
                THEN Call([Top EXCEPT !.pc = "arg"],
                          Frame("ParseExpression", "start"))
                ELSE SetTop([Top EXCEPT !.pc = "end"])
    /\ UNCHANGED <<ret, pc, result>>
    /\ NoLex
    /\ Idle

(* Parser::ParseIdentifierExpr, lines 438-446: the argument is pushed;     *)
(* ')' leaves the loop, any other token is eaten as the separator.         *)
ParseIdentifierExprArg ==
    /\ Running("ParseIdentifierExpr", "arg")
    /\ LET args == PushBack(Top.args, ret)
       IN  IF g_current_token = chRParen
           THEN /\ stack' = SetTop([Top EXCEPT !.args = args, !.pc = "end"])
                /\ NoLex
           ELSE /\ stack' = SetTop([Top EXCEPT !.args = args, !.pc = "loop"])
                /\ GetNextToken
    /\ UNCHANGED <<ret, pc, result>>
    /\ Idle

(* Parser::ParseIdentifierExpr, lines 448-449.                             *)
ParseIdentifierExprEnd ==
    /\ Running("ParseIdentifierExpr", "end")
    /\ GetNextToken
    /\ ret' = CallExprAST(Top.id, Top.args)
    /\ stack' = Pop
    /\ UNCHANGED <<pc, result>>
    /\ Idle

(* Parser::ParseBinOpRhs, lines 478-488: the loop head, up to the call of  *)
(* ParsePrimary.                                                           *)
ParseBinOpRhs ==
    /\ Running("ParseBinOpRhs", "loop")
    /\ LET current_precedence == GetTokenPrecedence(g_current_token)
       IN  IF current_precedence < Top.min_precedence
           THEN /\ ret' = Top.lhs
                /\ stack' = Pop
                /\ NoLex
           ELSE /\ GetNextToken
                /\ stack' = Call([Top EXCEPT
                                     !.current_precedence = current_precedence,
                                     !.binop = g_current_token,
                                     !.pc = "rhs"],
                                 Frame("ParsePrimary", "start"))
                /\ UNCHANGED ret
    /\ UNCHANGED <<pc, result>>
    /\ Idle

(* A right-associative climb: an operator that binds as tight as the       *)
(* current one is absorbed into rhs too.                                   *)
ParseBinOpRhsRhsRightAssoc ==
    /\ Running("ParseBinOpRhs", "rhs")
    /\ LET rhs == ret
           next_precedence == GetTokenPrecedence(g_current_token)
       IN  IF Top.current_precedence <= next_precedence
           THEN stack' = Call([Top EXCEPT !.pc = "merge"],
                              [Frame("ParseBinOpRhs", "loop") EXCEPT
                                  !.min_precedence = Top.current_precedence,
                                  !.lhs = rhs])
           ELSE stack' = SetTop([Top EXCEPT
                                    !.lhs = BinaryExprAST(ToChar(Top.binop),
                                                          Top.lhs, rhs),
                                    !.pc = "loop"])
    /\ UNCHANGED <<ret, pc, result>>
    /\ NoLex
    /\ Idle

(* Parser::ParseBinOpRhs, lines 488-498: rhs has been parsed; either the   *)
(* following operator is absorbed into it first, or the node is built.     *)
ParseBinOpRhsRhs ==
    /\ Running("ParseBinOpRhs", "rhs")
    /\ LET rhs == ret
           next_precedence == GetTokenPrecedence(g_current_token)
       IN  IF BindsTighter(Top.current_precedence, next_precedence)
           THEN stack' = Call([Top EXCEPT !.pc = "merge"],
                              [Frame("ParseBinOpRhs", "loop") EXCEPT
                                  !.min_precedence = Top.current_precedence + 1,
                                  !.lhs = rhs])
           ELSE stack' = SetTop([Top EXCEPT
                                    !.lhs = BinaryExprAST(ToChar(Top.binop),
                                                          Top.lhs, rhs),
                                    !.pc = "loop"])
    /\ UNCHANGED <<ret, pc, result>>
    /\ NoLex
    /\ Idle

(* Parser::ParseBinOpRhs, lines 496-498: the recursive call has returned   *)
(* the extended rhs.                                                       *)
ParseBinOpRhsMerge ==
    /\ Running("ParseBinOpRhs", "merge")
    /\ stack' = SetTop([Top EXCEPT
                           !.lhs = BinaryExprAST(ToChar(Top.binop), Top.lhs, ret),
                           !.pc = "loop"])
    /\ UNCHANGED <<ret, pc, result>>
    /\ NoLex
    /\ Idle

---------------------------------------------------------------------------
(* The inputs of the parser runs: an optional header followed by up to     *)
(* MaxLexemes lexemes, and the chains 1 op 2 op 3 ... with up to MaxOps    *)
(* operators of the precedence table.                                      *)

Lexemes == { <<49>>, <<97>>, <<chLParen>>, <<chRParen>>, <<chPlus>>,
             <<chStar>>, <<chComma>> }

Headers ==
    { <<>>,
      kwDef \o <<chSpace, 102, chLParen, 97, chSpace, 98, chRParen>>,
      kwExtern \o <<chSpace, 102, chLParen>> }

TableOps == {chLess, chPlus, chMinus, chStar}

RECURSIVE Chain(_)
Chain(ops) ==
    IF ops = <<>> THEN <<49>>
    ELSE Chain(SubSeq(ops, 1, Len(ops) - 1))
            \o <<ops[Len(ops)], 49 + Len(ops)>>

Chains == {Chain(ops) : ops \in SeqsUpTo(TableOps, MaxOps)}

ParserInputs ==
    {h \o Flatten(b) : h \in Headers, b \in SeqsUpTo(Lexemes, MaxLexemes)}
        \cup Chains

Init ==
    /\ \E s \in ParserInputs : FreshLexer(s)
    /\ calls = 0
    /\ stack = <<>>
    /\ ret = NullAST
    /\ pc = "start"
    /\ result = [kind |-> "none"]
    /\ NoLowering

Next ==
    \/ testExpr
    \/ testExprEof
    \/ ParseDefinition
    \/ ParseDefinitionReturn
    \/ ParseExtern
    \/ ParseTopLevelExpr
    \/ ParseTopLevelExprReturn
    \/ ParseExpression
    \/ ParseExpressionBinOp
    \/ ParsePrimaryIdentifier
    \/ ParseNumberExpr
    \/ ParsePrimaryParen
    \/ ParsePrimaryDefault
    \/ ParseParenExpr
    \/ ParseParenExprClose
    \/ ParseIdentifierExpr
    \/ ParseIdentifierExprLoop
    \/ ParseIdentifierExprArg
    \/ ParseIdentifierExprEnd
    \/ ParseBinOpRhs
    \/ ParseBinOpRhsRhs
    \/ ParseBinOpRhsMerge

Spec == Init /\ [][Next]_vars

(* The parser is one sequential thread: a step that can be taken is taken. *)
FairSpec == Spec /\ WF_vars(Next)

---------------------------------------------------------------------------
(* Lowering.  A Module is the list of the Functions created in it; a       *)
(* Function is [sym, args]: the symbol it is registered under and the      *)
(* names of its arguments.  A Function* is [kind |-> "function", module,   *)
(* idx], a Value* is a constant, an argument of a function, an instruction *)
(* or null.                                                                *)

FunctionPtr(module, idx) == [kind |-> "function", module |-> module, idx |-> idx]
ConstantFP(val) == [kind |-> "const", val |-> val]
Argument(func, i) == [kind |-> "arg", func |-> func, idx |-> i]
Instruction(op) == [kind |-> "inst", op |-> op]

ModuleOf(func) ==
    IF func.module = "g_module" THEN g_module ELSE context_module
ArgNames(func) == ModuleOf(func)[func.idx].args

(* Module::getFunction: the function registered under name, or null.  A    *)
(* function without a name is in no symbol table.                          *)
getFunction(module, which, name) ==
    IF name # <<>> /\ \E k \in 1..Len(module) : module[k].sym = name
    THEN FunctionPtr(which, CHOOSE k \in 1..Len(module) : module[k].sym = name)
    ELSE NullValue

(* The registry the lookups of CallExprAST::CodeGen (line 172) and of      *)
(* FunctionAST::CodeGen (line 232) read: context.module.                   *)
LookupFunction(name) == getFunction(context_module, "context.module", name)

(* A symbol table keeps names unique: a name already taken gets a suffix.  *)
RECURSIVE UniqueName(_, _, _)
UniqueName(name, taken, k) ==
    IF name = <<>> \/ name \notin taken THEN name
    ELSE IF Append(name, 48 + k) \notin taken THEN Append(name, 48 + k)
    ELSE UniqueName(name, taken, k + 1)

RECURSIVE SetArgNames(_, _)
SetArgNames(args_, done) ==
    IF args_ = <<>> THEN done
    ELSE SetArgNames(Tail(args_),
             Append(done, UniqueName(Head(args_), Range(done), 1)))

(* PrototypeAST::CodeGen, lines 195-212: Function::Create registers the    *)
(* function in g_module; the result is the module with the new function.   *)
PrototypeCodeGen(proto) ==
    Append(g_module,
           [sym |-> UniqueName(proto.name,
                               {g_module[k].sym : k \in 1..Len(g_module)}, 1),
            args |-> SetArgNames(proto.args, <<>>)])

(* ASTContext::namedValue(name), lines 36-39: map::at.                     *)
NamedValueSubscript(nv, name) ==
    IF name \in DOMAIN nv
    THEN [status |-> "ok", value |-> nv[name], nv |-> nv]
    ELSE [status |-> "ok", value |-> NullValue,
          nv |-> [n \in DOMAIN nv \cup {name} |->
                     IF n = name THEN NullValue ELSE nv[n]]]

NamedValueAt(nv, name) ==
    IF name \in DOMAIN nv
    THEN [status |-> "ok", value |-> nv[name], nv |-> nv]
    ELSE [status |-> "out_of_range", value |-> NullValue, nv |-> nv]

(* ASTContext::namedClear, lines 44-47.                                    *)
NamedClearKeeps(nv) == nv
NamedClear(nv) == EmptyMap

(* ASTContext::namedValue(name, value), lines 40-43.                       *)
NamedValuePut(nv, name, value) ==
    [n \in DOMAIN nv \cup {name} |-> IF n = name THEN value ELSE nv[n]]

(* FunctionAST::CodeGen, lines 244-247.                                    *)
RECURSIVE RegisterArgs(_, _, _, _)
RegisterArgs(nv, func, names, i) ==
    IF i > Len(names) THEN nv
    ELSE RegisterArgs(NamedValuePut(nv, names[i], Argument(func, i)),
                      func, names, i + 1)

(* BinaryExprAST::CodeGen, lines 137-154: the switch.                      *)
BinaryInstruction(op) ==
    CASE op = chLess -> Instruction("booltmp")
      [] op = chPlus -> Instruction("addtmp")
      [] op = chMinus -> Instruction("subtmp")
      [] op = chStar -> Instruction("multmp")
      [] OTHER -> NullValue

(* The CodeGen methods of the expression nodes.  The result is the value,  *)
(* the symbol table afterwards, and how the call ended: "ok", or           *)
(* "out_of_range" (map::at threw; nothing catches it), or "ub" (a null     *)
(* pointer was dereferenced or handed to the IRBuilder).                   *)
RECURSIVE ExprCodeGen(_, _)
RECURSIVE ArgsCodeGen(_, _, _)

ArgsCodeGen(args_, nv, values) ==
    IF args_ = <<>> THEN [status |-> "ok", value |-> values, nv |-> nv]
    ELSE Value({ IF a.status # "ok" THEN a
                 ELSE ArgsCodeGen(Tail(args_), a.nv, Append(values, a.value))
                 : a \in {ExprCodeGen(Head(args_), nv)} })

ExprCodeGen(ast, nv) ==
    CASE ast.kind = "Number" ->
            [status |-> "ok", value |-> ConstantFP(ast.val), nv |-> nv]
      [] ast.kind = "Variable" -> NamedValueAt(nv, ast.name)
      [] ast.kind = "Binary" ->
            Value({ IF l.status # "ok" THEN l
                    ELSE Value({ IF r.status # "ok" THEN r
                                 ELSE IF BinaryInstruction(ast.op) # NullValue
                                         /\ NullValue \in {l.value, r.value}
                                 THEN [r EXCEPT !.status = "ub"]
                                 ELSE [r EXCEPT !.value = BinaryInstruction(ast.op)]
                                 : r \in {ExprCodeGen(ast.rhs, l.nv)} })
                    : l \in {ExprCodeGen(ast.lhs, nv)} })
      [] ast.kind = "Call" ->
            Value({ IF a.status # "ok" THEN a
                    ELSE IF LookupFunction(ast.callee) = NullValue
                            \/ NullValue \in Range(a.value)
                    THEN [a EXCEPT !.status = "ub", !.value = NullValue]
                    ELSE [a EXCEPT !.value = Instruction("calltmp")]
                    : a \in {ArgsCodeGen(ast.args, nv, <<>>)} })
      [] OTHER -> [status |-> "ub", value |-> NullValue, nv |-> nv]

CurrentItem == program[ip]
Gen == UNCHANGED <<lexvars, calls, parsevars>>

(* testExpr, line 658: the CodeGen of a parsed extern declaration.         *)
ExternCodeGen ==
    /\ gpc = "idle"
    /\ ip < Len(program)
    /\ program[ip + 1].kind = "Prototype"
    /\ ip' = ip + 1
    /\ g_module' = PrototypeCodeGen(program[ip + 1])
    /\ curFunc' = FunctionPtr("g_module", Len(g_module) + 1)
    /\ outcome' = "ok"
    /\ UNCHANGED <<program, gpc, context_module, namedValues>>
    /\ Gen

(* FunctionAST::CodeGen, lines 232-247: the declaration is looked up or    *)
(* made, and the symbol table is rebuilt from its arguments.               *)
FunctionCodeGen ==
    /\ gpc = "idle"
    /\ ip < Len(program)
    /\ program[ip + 1].kind = "Function"
    /\ ip' = ip + 1
    /\ LET proto_ == program[ip + 1].proto
           found == LookupFunction(proto_.name)
           module == IF found = NullValue THEN PrototypeCodeGen(proto_)
                     ELSE g_module
           func == IF found = NullValue
                   THEN FunctionPtr("g_module", Len(g_module) + 1)
                   ELSE found
           names == IF func.module = "g_module" THEN module[func.idx].args
                    ELSE context_module[func.idx].args
       IN  /\ g_module' = module
           /\ curFunc' = func
           /\ namedValues' =
                  RegisterArgs(NamedClear(namedValues), func, names, 1)
    /\ gpc' = "body"
    /\ outcome' = "none"
    /\ UNCHANGED <<program, context_module>>
    /\ Gen

(* FunctionAST::CodeGen, lines 249-252: the body is lowered.  An exception *)
(* ends the program; after undefined behaviour the program may have        *)
(* crashed or may go on.                                                   *)
FunctionCodeGenBody ==
    /\ gpc = "body"
    /\ \E r \in {ExprCodeGen(CurrentItem.body, namedValues)} :
           /\ namedValues' = r.nv
           /\ outcome' = r.status
           /\ gpc' \in CASE r.status = "ok" -> {"idle"}
                         [] r.status = "out_of_range" -> {"aborted"}
                         [] OTHER -> {"idle", "aborted"}
    /\ UNCHANGED <<program, ip, g_module, context_module, curFunc>>
    /\ Gen

(* The programs of the lowering runs: up to MaxItems top-level constructs, *)
(* each an extern declaration, a definition or a top-level expression,     *)
(* over the function names f, g and the variable names x, y.               *)
nameF == <<102>>
nameG == <<103>>
nameX == <<120>>
nameY == <<121>>

GenArgLists == {<<>>, <<nameX>>, <<nameX, nameY>>, <<nameX, nameX>>}
GenPrototypes == {PrototypeAST(n, a) : n \in {nameF, nameG}, a \in GenArgLists}
GenBodies ==
    { NumberExprAST(Num(1)),
      VariableExprAST(nameX),
      VariableExprAST(nameY),
      BinaryExprAST(chPlus, VariableExprAST(nameX), VariableExprAST(nameY)),
      CallExprAST(nameF, <<VariableExprAST(nameX)>>) }
GenItems ==
    GenPrototypes
        \cup {FunctionAST(p, b) :
                 p \in GenPrototypes \cup {PrototypeAST(<<>>, <<>>)},
                 b \in GenBodies}

GenInit ==
    /\ FreshLexer(<<>>)
    /\ calls = 0
    /\ NoParser
    /\ program \in SeqsUpTo(GenItems, MaxItems)
    /\ ip = 0
    /\ gpc = "idle"
    /\ g_module = <<>>
    /\ context_module = <<>>
    /\ namedValues = EmptyMap
    /\ curFunc = NullValue
    /\ outcome = "none"

GenNext ==
    \/ ExternCodeGen
    \/ FunctionCodeGen
    \/ FunctionCodeGenBody

GenSpec == GenInit /\ [][GenNext]_vars

---------------------------------------------------------------------------
(* Properties of the lexer (checked under LexSpec).                        *)

RECURSIVE OnlyBlank(_, _)
OnlyBlank(s, inComment) ==
    IF s = <<>> THEN TRUE
    ELSE IF inComment
         THEN OnlyBlank(Tail(s), Head(s) \notin {chNL, chCR})
         ELSE IF Head(s) = chHash THEN OnlyBlank(Tail(s), TRUE)
         ELSE isspace(Head(s)) /\ OnlyBlank(Tail(s), FALSE)

(* C7: on an input made only of whitespace and '#' comments (a comment     *)
(* runs to newline, return or end-of-input), every call of GetToken, the   *)
(* first one included, returns the end-of-input token.                     *)
C7_BlankInputYieldsOnlyEof ==
    (OnlyBlank(source, FALSE) /\ calls >= 1) => g_current_token = TOKEN_EOF

C7_Witness ==
    /\ OnlyBlank(source, FALSE)
    /\ calls >= 2
    /\ Len(source) >= 3
    /\ source[1] = chHash
    /\ chCR \in Range(source)
    /\ chNL \notin Range(source)
    /\ source[Len(source)] \notin {chCR, chSpace}
    /\ g_current_token = TOKEN_EOF

RECURSIVE DropSpace(_)
DropSpace(s) == IF s # <<>> /\ isspace(Head(s)) THEN DropSpace(Tail(s)) ELSE s

RECURSIVE NumberRun(_)
NumberRun(s) ==
    IF s # <<>> /\ (isdigit(Head(s)) \/ Head(s) = chDot)
    THEN <<Head(s)>> \o NumberRun(Tail(s))
    ELSE <<>>

(* The maximal run of digits and '.' that the first GetToken accumulates.  *)
FirstRun == NumberRun(DropSpace(source))

Dots(t) == {i \in 1..Len(t) : t[i] = chDot}
ValidNumber(t) ==
    /\ t # <<>>
    /\ Cardinality(Dots(t)) <= 1
    /\ \E i \in 1..Len(t) : isdigit(t[i])

Malformed(t) == t # <<>> /\ ~ValidNumber(t)

(* The value a valid number text denotes: its digits, scaled by the number *)
(* of digits after the '.'.                                                *)
DecimalValue(t) ==
    LET digits == SelectSeq(t, isdigit)
        scale == IF Dots(t) = {} THEN 0
                 ELSE Len(t) - (CHOOSE i \in Dots(t) : TRUE)
    IN  Normalize([mant |-> DigitsValue(digits, 0), exp |-> scale])

ValidPrefixes(t) == {k \in 1..Len(t) : ValidNumber(SubSeq(t, 1, k))}
LongestValidPrefixValue(t) ==
    IF ValidPrefixes(t) = {} THEN Zero
    ELSE LET k == CHOOSE k \in ValidPrefixes(t) :
                      \A j \in ValidPrefixes(t) : j <= k
         IN  DecimalValue(SubSeq(t, 1, k))

(* C8 as stated: a run of digits and '.' that is no valid number yields a  *)
(* number token of value 0.                                                *)
C8_MalformedRunIsZero ==
    (calls = 1 /\ Malformed(FirstRun)) =>
        (g_current_token = TOKEN_NUMBER /\ g_number_val = Zero)

(* C8 amended: a run of digits and '.' that is no valid number yields a    *)
(* number token whose value is that of the longest leading part of the run *)
(* that is a valid number (1.2 for "1.2.3"), and 0 when no leading part is *)
(* one (".", "..").                                                        *)
C8_MalformedRunIsPrefixValue ==
    (calls = 1 /\ Malformed(FirstRun)) =>
        /\ g_current_token = TOKEN_NUMBER
        /\ g_number_val = LongestValidPrefixValue(FirstRun)

C8_Witness ==
    /\ calls = 1
    /\ Malformed(FirstRun)
    /\ Cardinality(Dots(FirstRun)) >= 2
    /\ g_current_token = TOKEN_NUMBER
    /\ g_number_val = [mant |-> 11, exp |-> 1]

---------------------------------------------------------------------------
(* Properties of the parser (checked under Spec and FairSpec).             *)

RECURSIVE Subtrees(_)
Subtrees(t) ==
    {t} \cup
    (IF t.kind = "Binary" THEN Subtrees(t.lhs) \cup Subtrees(t.rhs)
     ELSE IF t.kind = "Call"
          THEN UNION {Subtrees(t.args[i]) : i \in 1..Len(t.args)}
     ELSE IF t.kind = "Function" THEN Subtrees(t.body)
     ELSE {})

(* Every tree the parser holds: the locals of the active calls, the value  *)
(* in flight between a return and its caller, and the finished construct.  *)
HeldTrees ==
    {ret, result}
        \cup {stack[i].lhs : i \in 1..Len(stack)}
        \cup UNION {{stack[i].args[j] : j \in 1..Len(stack[i].args)} :
                        i \in 1..Len(stack)}

BinaryNodes == {n \in UNION {Subtrees(t) : t \in HeldTrees} : n.kind = "Binary"}

(* C6: every BinaryOp node the parser constructs has two children that are *)
(* nodes: neither operand is null.                                         *)
C6_BinaryHasTwoChildren ==
    \A n \in BinaryNodes : n.lhs # NullAST /\ n.rhs # NullAST

(* C10: every BinaryOp node the parser constructs carries an operator of   *)
(* the precedence table, ParseBinOpRhs only runs with min_precedence >= 0, *)
(* and so no node reaches the default branch of BinaryExprAST::CodeGen.    *)
C10_BinaryOpsAreTableOps ==
    /\ \A n \in BinaryNodes :
           /\ n.op \in DOMAIN g_binop_precedence
           /\ BinaryInstruction(n.op) # NullValue
    /\ \A i \in 1..Len(stack) :
           stack[i].fn = "ParseBinOpRhs" => stack[i].min_precedence >= 0

C10_Witness ==
    /\ pc = "done"
    /\ result.kind = "Function"
    /\ result.body.kind = "Binary"
    /\ result.body.lhs.kind = "Number"
    /\ result.body.rhs.kind = "Number"
    /\ g_current_token = chComma

(* C9: every parse operation on a finite input returns.                    *)
C9_ParseTerminates == <>(pc = "done")

(* The argument list saturates only in the argument loop at end-of-input.  *)
ArgsDroppedOnlyAtEof ==
    \A i \in 1..Len(stack) :
        Len(stack[i].args) = MaxArgs => g_current_token = TOKEN_EOF

(* The chains p0 op1 p1 ... opn pn: operand i (from 1) is the literal i,   *)
(* so the node built for operator i is the one whose left operand ends in  *)
(* literal i and whose right operand starts with literal i + 1.            *)
IsChain(s) ==
    /\ Len(s) % 2 = 1
    /\ \A k \in 1..Len(s) :
           IF k % 2 = 1 THEN s[k] = 48 + (k + 1) \div 2 ELSE s[k] \in TableOps

ChainOps(s) == [i \in 1..(Len(s) \div 2) |-> s[2 * i]]
Literal(i) == NumberExprAST(Num(i))

RECURSIVE LeftLeaf(_)
LeftLeaf(t) == IF t.kind = "Binary" THEN LeftLeaf(t.lhs) ELSE t
RECURSIVE RightLeaf(_)
RightLeaf(t) == IF t.kind = "Binary" THEN RightLeaf(t.rhs) ELSE t

OpNodes(t, i, op) ==
    {n \in Subtrees(t) : /\ n.kind = "Binary"
                         /\ n.op = op
                         /\ RightLeaf(n.lhs) = Literal(i)
                         /\ LeftLeaf(n.rhs) = Literal(i + 1)}

ChainParsed == pc = "done" /\ IsChain(source) /\ result.kind = "Function"

Text(op1, op2) == <<49, op1, 50, op2, 51>>

(* C1: in the tree of a chain of number literals and table operators, an   *)
(* operator followed by one of strictly higher precedence has that one's   *)
(* node inside its right operand; "1+2*3" is 1 + (2 * 3).                  *)
C1_HigherPrecedenceBindsTighter ==
    ChainParsed =>
        /\ \A i \in 1..(Len(ChainOps(source)) - 1) :
               LET ops == ChainOps(source)
               IN  g_binop_precedence[ops[i]] < g_binop_precedence[ops[i + 1]]
                   => \E a \in OpNodes(result.body, i, ops[i]),
                         b \in OpNodes(result.body, i + 1, ops[i + 1]) :
                          b \in Subtrees(a.rhs)
        /\ source = Text(chPlus, chStar) =>
               result.body = BinaryExprAST(chPlus, Literal(1),
                                 BinaryExprAST(chStar, Literal(2), Literal(3)))

C1_Witness ==
    /\ ChainParsed
    /\ source = Text(chPlus, chStar)
    /\ result.body.rhs.kind = "Binary"

(* C2: in the tree of such a chain, of two adjacent operators of equal     *)
(* precedence the first one's node lies inside the left operand of the     *)
(* second one's; "1+2-3" is (1 + 2) - 3.                                   *)
C2_EqualPrecedenceIsLeftAssociative ==
    ChainParsed =>
        /\ \A i \in 1..(Len(ChainOps(source)) - 1) :
               LET ops == ChainOps(source)
               IN  g_binop_precedence[ops[i]] = g_binop_precedence[ops[i + 1]]
                   => \E a \in OpNodes(result.body, i, ops[i]),
                         b \in OpNodes(result.body, i + 1, ops[i + 1]) :
                          a \in Subtrees(b.lhs)
        /\ source = Text(chPlus, chMinus) =>
               result.body = BinaryExprAST(chMinus,
                                 BinaryExprAST(chPlus, Literal(1), Literal(2)),
                                 Literal(3))

C2_Witness ==
    /\ ChainParsed
    /\ source = Text(chPlus, chMinus)
    /\ result.body.lhs.kind = "Binary"

---------------------------------------------------------------------------
(* Properties of the lowering (checked under GenSpec).                     *)

(* The symbols Prototype lowering has registered declarations under.       *)
RegisteredNames == {g_module[k].sym : k \in 1..Len(g_module)} \ {<<>>}

Lowered ==
    /\ gpc \in {"idle", "aborted"}
    /\ ip >= 1
    /\ CurrentItem.kind = "Function"

(* C3: a declaration that Prototype lowering registered under n is found   *)
(* by every later lookup of n: lowering a Function named n goes on with    *)
(* the declaration registered under n, and lowering a Call of n, with      *)
(* bound arguments, resolves the callee.                                   *)
C3_OneSharedRegistry ==
    /\ (gpc = "body" /\ CurrentItem.proto.name \in RegisteredNames)
           => ModuleOf(curFunc)[curFunc.idx].sym = CurrentItem.proto.name
    /\ (/\ Lowered
        /\ CurrentItem.body.kind = "Call"
        /\ CurrentItem.body.callee \in RegisteredNames
        /\ \A i \in 1..Len(CurrentItem.body.args) :
               /\ CurrentItem.body.args[i].kind = "Variable"
               /\ CurrentItem.body.args[i].name \in DOMAIN namedValues)
           => outcome = "ok"

(* C4: when the body of a Function is about to be lowered, every binding   *)
(* of the Symbol Table is an argument of that Function, under that         *)
(* argument's name: nothing an earlier lowering installed is left.         *)
C4_SymbolTableHoldsOnlyOwnArgs ==
    gpc = "body" =>
        /\ DOMAIN namedValues = Range(ArgNames(curFunc))
        /\ \A n \in DOMAIN namedValues :
               /\ namedValues[n].kind = "arg"
               /\ namedValues[n].func = curFunc
               /\ ArgNames(curFunc)[namedValues[n].idx] = n

C4_Witness ==
    /\ gpc = "body"
    /\ ip = 2
    /\ program[1].kind = "Function"
    /\ program[1].proto.args = <<nameX, nameY>>
    /\ CurrentItem.proto.args = <<nameX>>
    /\ curFunc.idx = 2
    /\ namedValues[nameX] = Argument(curFunc, 1)
    /\ nameY \notin DOMAIN namedValues

RECURSIVE VariableNames(_)
VariableNames(t) ==
    CASE t.kind = "Variable" -> {t.name}
      [] t.kind = "Binary" -> VariableNames(t.lhs) \cup VariableNames(t.rhs)
      [] t.kind = "Call" ->
            UNION {VariableNames(t.args[i]) : i \in 1..Len(t.args)}
      [] OTHER -> {}

(* C5: lowering a VariableReference whose name is no key of the Symbol     *)
(* Table ends in the error (map::at throws, the lowering is abandoned): a  *)
(* body that is such a reference never yields a value, a lowering that     *)
(* ends well has met no such reference, and the Symbol Table gains no      *)
(* entry.                                                                  *)
C5_UnboundIdentifierIsAnError ==
    Lowered =>
        /\ (/\ CurrentItem.body.kind = "Variable"
            /\ CurrentItem.body.name \notin Range(ArgNames(curFunc)))
               => (outcome = "out_of_range" /\ gpc = "aborted")
        /\ outcome = "ok" =>
               VariableNames(CurrentItem.body) \subseteq Range(ArgNames(curFunc))
        /\ DOMAIN namedValues = Range(ArgNames(curFunc))

C5_Witness ==
    /\ Lowered
    /\ ip = 2
    /\ CurrentItem.body = VariableExprAST(nameY)
    /\ CurrentItem.proto.args = <<nameX>>
    /\ program[1].kind = "Function"
    /\ nameY \in Range(program[1].proto.args)
    /\ outcome = "out_of_range"
    /\ gpc = "aborted"

============================================================================
